---- MODULE Spec2Model ----
(***************************************************************************)
(* Model of src/app.js: the labeled-face database kept in localStorage     *)
(* under LS_DB_KEY, the FaceMatcher rebuilt from it, and the handlers that *)
(* read and write them (DOMContentLoaded, load models, register, clear,    *)
(* export, import).                                                        *)
(*                                                                         *)
(* A persisted or imported text is modelled by its JSON syntax: a kind     *)
(* ("bad" = not JSON, "empty" = the empty string, "null", "arr" = [] and   *)
(* "obj") and, for an object, its members in document order, duplicates    *)
(* included.  A JavaScript value is modelled by its own keys in insertion  *)
(* order and the value under each key.  JSON.parse and JSON.stringify      *)
(* convert between the two.                                                *)
(*                                                                         *)
(* The camera and the detection loop: every async handler is cut at its    *)
(* awaits, and a step runs from one await to the next.  The btnStart       *)
(* handlers in flight and the detectionLoop chains are counted per await   *)
(* they wait at, since nothing in the script tells two of them apart.      *)
(*                                                                         *)
(* Specifications, all over the same variables:                            *)
(*   Spec         the store handlers from the page load on                *)
(*   SpecExport   export and import of what was exported                   *)
(*   SpecLoop     start, stop and the detection loop                       *)
(*   SpecGate     the loop with the model loads and a registration         *)
(*   SpecOptions  the loop with the detection controls                     *)
(*   SpecRace     two registrations in flight with clears, imports, ticks  *)
(***************************************************************************)
EXTENDS Naturals, Integers, Sequences, FiniteSets, TLC

\* ------------------------------------------------------------------ bounds
\* Longest descriptor list a registration may build under one name.
MaxLen == 2
\* Most image files chosen for one registration.
MaxFiles == 2
\* Most import handlers awaiting f.text() at once.
MaxImports == 1
\* Most loadModels() calls awaiting the model files at once.
MaxLoads == 1

\* Names typed into the name field.  "constructor" is a name every object
\* inherits from Object.prototype.
Names == {"a", "constructor"}
\* Names an object literal or a parsed object inherits.
ProtoNames == {"constructor"}
\* Face descriptors the recognition net returns (each a 128-number vector).
Descs == {"d1", "d2"}
\* Registration handlers that may be in flight, and those a specification uses.
Slots == {"r1", "r2"}
SpecSlots == {"r1"}

\* ------------------------------------------------------------ JSON syntax
NoMembers == <<>>
Text(k, mem) == [k |-> k, mem |-> mem]
Absent == Text("absent", NoMembers)
BadText == Text("bad", NoMembers)
EmptyText == Text("empty", NoMembers)
NullDoc == Text("null", NoMembers)
ArrDoc == Text("arr", NoMembers)
Member(n, t, ds) == [name |-> n, t |-> t, ds |-> ds]
ListMember(n, ds) == Member(n, "list", ds)
NumMember(n) == Member(n, "num", <<>>)
ObjDoc(mem) == Text("obj", mem)

\* Files the user may pick for import.
ImportTexts ==
  { BadText, EmptyText, NullDoc, ArrDoc,
    ObjDoc(<<>>),
    ObjDoc(<<ListMember("a", <<>>)>>),
    ObjDoc(<<ListMember("a", <<"d1">>)>>),
    ObjDoc(<<NumMember("a")>>),
    ObjDoc(<<ListMember("a", <<"d1">>), ListMember("a", <<"d2">>)>>),
    ObjDoc(<<ListMember("constructor", <<"d2">>), ListMember("a", <<"d1">>)>>) }

\* ------------------------------------------------------ JavaScript values
NoKeys == <<>>
NoVals == [n \in {} |-> [t |-> "list", ds |-> <<>>]]
Value(k, keys, val) == [k |-> k, keys |-> keys, val |-> val]
EmptyObj == Value("obj", NoKeys, NoVals)
NullValue == Value("null", NoKeys, NoVals)
ArrValue == Value("arr", NoKeys, NoVals)
Entry(t, ds) == [t |-> t, ds |-> ds]

HasOwn(v, n) == n \in DOMAIN v.val

\* obj[n] = x: a new key goes last, an existing key keeps its place.
SetProp(v, n, x) ==
  Value(v.k,
        IF HasOwn(v, n) THEN v.keys ELSE Append(v.keys, n),
        [m \in DOMAIN v.val \cup {n} |-> IF m = n THEN x ELSE v.val[m]])

\* JSON.parse succeeds on the text.
Parses(text) == text.k \in {"null", "arr", "obj"}

RECURSIVE ParseMembers(_, _, _)
ParseMembers(mem, i, acc) ==
  IF i > Len(mem) THEN acc
  ELSE ParseMembers(mem, i + 1, SetProp(acc, mem[i].name, Entry(mem[i].t, mem[i].ds)))

\* JSON.parse(text), for a text that parses: a repeated key takes its last value.
JSONparse(text) ==
  CASE text.k = "null" -> NullValue
    [] text.k = "arr" -> ArrValue
    [] OTHER -> ParseMembers(text.mem, 1, EmptyObj)

\* JSON.stringify(v): own enumerable keys in order; an array prints its
\* elements only, so named properties set on it are dropped.
JSONstringify(v) ==
  CASE v.k = "null" -> NullDoc
    [] v.k = "arr" -> ArrDoc
    [] OTHER -> ObjDoc([i \in 1..Len(v.keys) |->
                          Member(v.keys[i], v.val[v.keys[i]].t, v.val[v.keys[i]].ds)])


\* ------------------------------------------------------------ persistence
\* loadDB() without the `|| '{}'`: JSON.parse(null) gives null.
loadDBNoDefault(store) ==
  CASE store.k = "absent" -> NullValue
    [] store.k \in {"empty", "bad"} -> EmptyObj
    [] OTHER -> JSONparse(store)

\* loadDB(): getItem gives null for an absent key and '' is falsy, so both
\* read as '{}'; a text JSON.parse rejects is caught and read as {}.
loadDB(store) ==
  CASE store.k \in {"absent", "empty"} -> EmptyObj
    [] store.k = "bad" -> EmptyObj
    [] OTHER -> JSONparse(store)

\* setItem given the object itself: it is stored as '[object Object]'.
saveDBNoStringify(db) == BadText

\* saveDB(db): the text written under LS_DB_KEY.
saveDB(db) == JSONstringify(db)

\* ---------------------------------------------------------------- matcher
NoMatcher == [t |-> "null", groups |-> <<>>]
FaceMatcher(groups) == [t |-> "matcher", groups |-> groups]
LabeledFaceDescriptors(label, ds) == [label |-> label, descriptors |-> ds]

\* Some own key of db holds a value without .map (not a list).
HasNonList(db) == \E n \in DOMAIN db.val : db.val[n].t # "list"

\* The groups makeFaceMatcherFromStorage builds: one per own key, in key order.
LabeledDescriptors(db) ==
  [i \in 1..Len(db.keys) |-> LabeledFaceDescriptors(db.keys[i], db.val[db.keys[i]].ds)]

\* makeFaceMatcherFromStorage() on the persisted text: Object.keys(null) and
\* .map on a non-list throw a TypeError before dbCount and faceMatcher are
\* assigned; otherwise the matcher is null exactly when db has no own key.
makeFaceMatcherFromStorage(store) ==
  LET db == loadDB(store)
  IN  IF db.k = "null" \/ HasNonList(db)
      THEN [threw |-> TRUE, count |-> 0, matcher |-> NoMatcher]
      ELSE [threw |-> FALSE, count |-> Len(db.keys),
            matcher |-> IF Len(db.keys) > 0
                        THEN FaceMatcher(LabeledDescriptors(db)) ELSE NoMatcher]

\* ------------------------------------------------------------------ state
VARIABLES
  ls,             \* the text under LS_DB_KEY in localStorage, or Absent
  faceMatcher,    \* the in-memory matcher, NoMatcher for null
  dbCount,        \* dbCount.innerText, -1 while it is as the page delivered it
  isModelsLoaded, \* the models-loaded flag
  loads,          \* loadModels() calls awaiting the model files
  started,        \* DOMContentLoaded has fired
  regs,           \* per registration handler: position and locals
  imports,        \* import handlers awaiting f.text()
  exported,       \* the last downloaded facelab_db.json, NoFile before any
  exportedDB,     \* the db the export handler serialised into it
  dialog,         \* the alert or confirm text the handler that ran last showed, "" for none
  stream,         \* the variable `stream` holds a MediaStream (FALSE for null)
  leaked,         \* a stream handed out is live and no longer held by `stream`
  running,        \* the running flag
  starts,         \* btnStart handlers in flight, counted per await they wait at
  ticks,          \* detectionLoop chains, counted per thing they wait for
  overlay,        \* what the overlay canvas shows
  panel,          \* what the identified list shows
  controls,       \* the values of the three detection controls
  detectionOptions, \* the variable `detectionOptions`
  lastCall,       \* the options of the newest detectAllFaces call of a tick
  stopped         \* btnStop was clicked and btnStart was not clicked since

storeVars == <<ls, faceMatcher, dbCount, isModelsLoaded, loads, started, regs,
               imports, exported, exportedDB, dialog>>

storeState == <<ls, faceMatcher, dbCount, isModelsLoaded, loads,
                          started, regs, imports, exported, exportedDB>>

loopVars == <<stream, leaked, running, starts, ticks, overlay, panel,
              controls, detectionOptions, lastCall, stopped>>

vars == <<storeVars, loopVars>>

NoFile == Text("none", NoMembers)
Idle == [pc |-> "idle", label |-> "", left |-> 0, descriptors |-> <<>>]
NoDialog == ""

AlertName == "Enter a name to register"
AlertFiles == "Choose one or more images for this person"
AlertModels == "Load models first"
AlertNoFaces == "No faces detected in uploaded images. Try clearer photos."
AlertRegistered == "Registered ${descriptors.length} face(s) for ${label}"
AlertImported == "Imported DB successfully"
AlertInvalid == "Invalid JSON file"
AlertNoCamera == "Your browser does not support camera access."
ConfirmClear == "Clear all registered faces?"
AlertCamera == "Camera access denied or not available. Check permissions and that you are using https/http://localhost."

\* ------------------------------------------------------ detection options
\* The values the three controls can hold: the select's two options, and
\* texts typed into the two number fields.
ModelValues == {"tiny", "ssd"}
InputSizeTexts == {"", "416"}
ScoreTexts == {"", "0", "0.7"}

\* parseInt and parseFloat on those texts; numbers are written as texts.
parseInt(text) == IF text = "" THEN "NaN" ELSE text
parseFloat(text) == IF text = "" THEN "NaN" ELSE text

\* `x || d`: NaN and 0 are falsy.
OrDefault(x, d) == IF x \in {"NaN", "0"} THEN d ELSE x

TinyFaceDetectorOptions(inputSize, scoreThreshold) ==
  [kind |-> "tiny", inputSize |-> inputSize, score |-> scoreThreshold]
SsdMobilenetv1Options(minConfidence) ==
  [kind |-> "ssd", inputSize |-> "", score |-> minConfidence]

\* updateDetectionOptions(): the value it assigns to detectionOptions.
updateDetectionOptions(c) ==
  IF c.model = "tiny"
  THEN TinyFaceDetectorOptions(OrDefault(parseInt(c.inputSize), "320"),
                               OrDefault(parseFloat(c.scoreThreshold), "0.5"))
  ELSE SsdMobilenetv1Options(OrDefault(parseFloat(c.scoreThreshold), "0.5"))

\* The options the tick hands to detectAllFaces.
TickCallOptions == SsdMobilenetv1Options("0.5")
NoCall == [kind |-> "none", inputSize |-> "", score |-> ""]

\* The controls as the page delivers them: the first option of the select,
\* the number fields empty.
DefaultControls == [model |-> "tiny", inputSize |-> "", scoreThreshold |-> ""]

\* faceMatcher.findBestMatch(descriptor): the label of the first group that
\* holds the descriptor, 'unknown' when none does.
RECURSIVE BestFrom(_, _, _)
BestFrom(groups, d, i) ==
  IF i > Len(groups) THEN "unknown"
  ELSE IF \E j \in 1..Len(groups[i].descriptors) : groups[i].descriptors[j] = d
       THEN groups[i].label
       ELSE BestFrom(groups, d, i + 1)
findBestMatch(matcher, d) == BestFrom(matcher.groups, d, 1)

NoStarts == [loading |-> 0, camera |-> 0, play |-> 0]
NoTicks == [raf |-> 0, detect |-> 0]
BlankPanel == [age |-> "", identified |-> <<>>]

\* The camera and the loop as the script leaves them.
LoopInit ==
  /\ stream = FALSE
  /\ leaked = FALSE
  /\ running = FALSE
  /\ starts = NoStarts
  /\ ticks = NoTicks
  /\ overlay = "clear"
  /\ panel = BlankPanel
  /\ controls = DefaultControls
  /\ detectionOptions = updateDetectionOptions(DefaultControls)
  /\ lastCall = NoCall
  /\ stopped = FALSE

\* The page as the script leaves it: the key in localStorage is whatever an
\* earlier session or another script left there.
Init ==
  /\ ls \in {Absent, EmptyText, BadText}
  /\ faceMatcher = NoMatcher
  /\ dbCount = -1
  /\ isModelsLoaded = FALSE
  /\ loads = 0
  /\ started = FALSE
  /\ regs = [i \in Slots |-> Idle]
  /\ imports = 0
  /\ exported = NoFile
  /\ exportedDB = EmptyObj
  /\ dialog = NoDialog
  /\ LoopInit

\* Assign what a completed rebuild assigns; a rebuild that threw assigns nothing.
Rebuilt(r) ==
  /\ faceMatcher' = IF r.threw THEN faceMatcher ELSE r.matcher
  /\ dbCount' = IF r.threw THEN dbCount ELSE r.count

\* DOMContentLoaded handler.
Start(hasMedia) ==
  /\ ~started
  /\ started' = TRUE
  /\ LET r == makeFaceMatcherFromStorage(ls)
     IN  /\ Rebuilt(r)
         /\ dialog' = IF hasMedia THEN NoDialog ELSE AlertNoCamera
  /\ UNCHANGED <<ls, isModelsLoaded, loads, regs, imports, exported, exportedDB>>
  /\ UNCHANGED loopVars

\* The page is loaded again: the script's variables are initialised anew and
\* the handlers in flight are gone; localStorage and downloads stay.
Reload ==
  /\ started
  /\ started' = FALSE
  /\ faceMatcher' = NoMatcher
  /\ dbCount' = -1
  /\ isModelsLoaded' = FALSE
  /\ loads' = 0
  /\ regs' = [i \in Slots |-> Idle]
  /\ imports' = 0
  /\ dialog' = NoDialog
  /\ UNCHANGED <<ls, exported, exportedDB>>
  /\ stream' = FALSE
  /\ leaked' = FALSE
  /\ running' = FALSE
  /\ starts' = NoStarts
  /\ ticks' = NoTicks
  /\ overlay' = "clear"
  /\ panel' = BlankPanel
  /\ controls' = DefaultControls
  /\ detectionOptions' = updateDetectionOptions(DefaultControls)
  /\ lastCall' = NoCall
  /\ stopped' = FALSE

\* loadModels() up to its first await.
LoadModelsClick ==
  /\ started
  /\ loads < MaxLoads
  /\ loads' = loads + 1
  /\ dialog' = NoDialog
  /\ UNCHANGED <<ls, faceMatcher, dbCount, isModelsLoaded, started, regs,
                 imports, exported, exportedDB>>
  /\ UNCHANGED loopVars

\* loadModels() after its awaits: every net loaded (ok) or one load rejected.
\* A rebuild that throws lands in the same catch, after the flag was set.
LoadModelsDone(ok) ==
  /\ loads > 0
  /\ loads' = loads - 1
  /\ IF ok
     THEN LET r == makeFaceMatcherFromStorage(ls)
          IN  /\ isModelsLoaded' = TRUE
              /\ Rebuilt(r)
     ELSE UNCHANGED <<faceMatcher, dbCount, isModelsLoaded>>
  /\ dialog' = NoDialog
  /\ UNCHANGED <<ls, started, regs, imports, exported, exportedDB>>
  /\ UNCHANGED loopVars

\* ----------------------------------------------------------- registration
\* What db[label] reads: the own value, else what the prototype chain gives
\* (a function, for a name of ProtoNames), else undefined.
\* `if (!db[label]) db[label] = []; db[label] = db[label].concat(descriptors)`
\* throws when db is null, and when db[label] is truthy without .concat: a
\* number, or an inherited function.
appendThrows(db, label) ==
  \/ db.k = "null"
  \/ HasOwn(db, label) /\ db.val[label].t # "list"
  \/ ~HasOwn(db, label) /\ label \in ProtoNames

\* `db[label] = descriptors` in place of the concat: what the label held is
\* replaced.
appendedAssign(db, label, descriptors) ==
  SetProp(db, label, Entry("list", descriptors))

\* db after those two lines, when they do not throw.
appended(db, label, descriptors) ==
  SetProp(db, label,
          Entry("list", (IF HasOwn(db, label) THEN db.val[label].ds ELSE <<>>)
                        \o descriptors))

\* btnRegister click, up to the first await of the loop or an early return.
RegisterClick(i, label, n) ==
  /\ started
  /\ regs[i].pc = "idle"
  /\ IF label = "" THEN
       /\ dialog' = AlertName
       /\ UNCHANGED regs
     ELSE IF n = 0 THEN
       /\ dialog' = AlertFiles
       /\ UNCHANGED regs
     ELSE IF ~isModelsLoaded THEN
       /\ dialog' = AlertModels
       /\ UNCHANGED regs
     ELSE
       /\ regs' = [regs EXCEPT ![i] =
                     [pc |-> "loop", label |-> label, left |-> n, descriptors |-> <<>>]]
       /\ dialog' = NoDialog
  /\ UNCHANGED <<ls, faceMatcher, dbCount, isModelsLoaded, loads, started,
                 imports, exported, exportedDB>>
  /\ UNCHANGED loopVars

\* The descriptors collected once the image in hand gave `face` ("none": no face).
Collected(i, face) ==
  IF face = "none" THEN regs[i].descriptors ELSE Append(regs[i].descriptors, face)

\* registerLabeledFaces resumes with the detection of one image.  After the
\* last image it runs on, without another await, through the load, append,
\* save and rebuild.
RegisterDetect(i, face) ==
  /\ regs[i].pc = "loop"
  /\ LET ds == Collected(i, face)
         label == regs[i].label
         db == loadDB(ls)
     IN  IF regs[i].left > 1 THEN
           /\ regs' = [regs EXCEPT ![i].left = @ - 1, ![i].descriptors = ds]
           /\ dialog' = NoDialog
           /\ UNCHANGED <<ls, faceMatcher, dbCount>>
         ELSE IF Len(ds) = 0 THEN
           /\ regs' = [regs EXCEPT ![i] = Idle]
           /\ dialog' = AlertNoFaces
           /\ UNCHANGED <<ls, faceMatcher, dbCount>>
         ELSE IF appendThrows(db, label) THEN
           /\ regs' = [regs EXCEPT ![i] = Idle]
           /\ dialog' = NoDialog
           /\ UNCHANGED <<ls, faceMatcher, dbCount>>
         ELSE
           /\ Len(appended(db, label, ds).val[label].ds) <= MaxLen
           /\ regs' = [regs EXCEPT ![i] = Idle]
           /\ ls' = saveDB(appended(db, label, ds))
           /\ LET r == makeFaceMatcherFromStorage(ls')
              IN  /\ Rebuilt(r)
                  /\ dialog' = IF r.threw THEN NoDialog ELSE AlertRegistered
  /\ UNCHANGED <<isModelsLoaded, loads, started, imports, exported, exportedDB>>
  /\ UNCHANGED loopVars

\* bufferToImage or detectSingleFace rejects: the handler ends there.
RegisterReject(i) ==
  /\ regs[i].pc = "loop"
  /\ regs' = [regs EXCEPT ![i] = Idle]
  /\ dialog' = NoDialog
  /\ UNCHANGED <<ls, faceMatcher, dbCount, isModelsLoaded, loads, started,
                 imports, exported, exportedDB>>
  /\ UNCHANGED loopVars

\* ------------------------------------------------------------------ clear
\* btnClearDB click, without the rebuild.
ClearNoRebuild(confirmed) ==
  /\ started
  /\ ls' = IF confirmed THEN Absent ELSE ls
  /\ dialog' = ConfirmClear
  /\ UNCHANGED <<faceMatcher, dbCount, isModelsLoaded, loads, started, regs,
                 imports, exported, exportedDB>>
  /\ UNCHANGED loopVars

\* btnClearDB click; `confirmed` is the answer to confirm().
Clear(confirmed) ==
  /\ started
  /\ dialog' = ConfirmClear
  /\ IF confirmed
     THEN /\ ls' = Absent
          /\ Rebuilt(makeFaceMatcherFromStorage(ls'))
     ELSE UNCHANGED <<ls, faceMatcher, dbCount>>
  /\ UNCHANGED <<isModelsLoaded, loads, started, regs, imports, exported, exportedDB>>
  /\ UNCHANGED loopVars

\* --------------------------------------------------------- export, import
\* btnExport click, serialising the labels and descriptors of the in-memory
\* matcher instead of loadDB().
ExportFromMatcher ==
  /\ started
  /\ exported' = JSONstringify(
       Value("obj",
             [i \in 1..Len(faceMatcher.groups) |-> faceMatcher.groups[i].label],
             [n \in {faceMatcher.groups[i].label : i \in 1..Len(faceMatcher.groups)} |->
                Entry("list",
                      (CHOOSE g \in {faceMatcher.groups[i] : i \in 1..Len(faceMatcher.groups)} :
                         g.label = n).descriptors)]))
  /\ exportedDB' = loadDB(ls)
  /\ dialog' = NoDialog
  /\ UNCHANGED <<ls, faceMatcher, dbCount, isModelsLoaded, loads, started,
                 regs, imports>>
  /\ UNCHANGED loopVars

\* btnExport click.
Export ==
  /\ started
  /\ exported' = JSONstringify(loadDB(ls))
  /\ exportedDB' = loadDB(ls)
  /\ dialog' = NoDialog
  /\ UNCHANGED <<ls, faceMatcher, dbCount, isModelsLoaded, loads, started,
                 regs, imports>>
  /\ UNCHANGED loopVars

\* importFile change, up to `await f.text()`; without a file it returns.
ImportChange(hasFile) ==
  /\ started
  /\ IF hasFile
     THEN /\ imports < MaxImports
          /\ imports' = imports + 1
     ELSE UNCHANGED imports
  /\ dialog' = NoDialog
  /\ UNCHANGED <<ls, faceMatcher, dbCount, isModelsLoaded, loads, started,
                 regs, exported, exportedDB>>
  /\ UNCHANGED loopVars

\* The text under the key after the try block, written before it is parsed.
importedStoreUnparsed(text, store) == text

\* The text under the key after the try block, merged into the old db.
importedStoreMerged(text, store) ==
  IF Parses(text)
  THEN LET old == loadDB(store)
           new == JSONparse(text)
       IN  IF old.k = "obj" /\ new.k = "obj"
           THEN JSONstringify(
                  Value("obj",
                        old.keys \o SelectSeq(new.keys, LAMBDA n : ~HasOwn(old, n)),
                        [n \in DOMAIN old.val \cup DOMAIN new.val |->
                           IF HasOwn(new, n) THEN new.val[n] ELSE old.val[n]]))
           ELSE JSONstringify(new)
  ELSE store

\* The text under the key after the try block: JSON.parse throws before
\* setItem, otherwise setItem writes JSON.stringify(parsed).
importedStore(text, store) ==
  IF Parses(text) THEN JSONstringify(JSONparse(text)) ELSE store

\* The import handler resumes with the file's text.
ImportResume(text) ==
  /\ imports > 0
  /\ imports' = imports - 1
  /\ ls' = importedStore(text, ls)
  /\ IF Parses(text)
     THEN LET r == makeFaceMatcherFromStorage(ls')
          IN  /\ Rebuilt(r)
              /\ dialog' = IF r.threw THEN AlertInvalid ELSE AlertImported
     ELSE /\ dialog' = AlertInvalid
          /\ UNCHANGED <<faceMatcher, dbCount>>
  /\ UNCHANGED <<isModelsLoaded, loads, started, regs, exported, exportedDB>>
  /\ UNCHANGED loopVars

\* f.text() rejects: the handler ends there.
ImportReadFail ==
  /\ imports > 0
  /\ imports' = imports - 1
  /\ dialog' = NoDialog
  /\ UNCHANGED <<ls, faceMatcher, dbCount, isModelsLoaded, loads, started,
                 regs, exported, exportedDB>>
  /\ UNCHANGED loopVars

\* ---------------------------------------------------------- specification
Next ==
  \/ \E hasMedia \in BOOLEAN : Start(hasMedia)
  \/ Reload
  \/ LoadModelsClick
  \/ \E ok \in BOOLEAN : LoadModelsDone(ok)
  \/ \E i \in SpecSlots, label \in Names \cup {""}, n \in 0..MaxFiles :
       RegisterClick(i, label, n)
  \/ \E i \in SpecSlots, face \in Descs \cup {"none"} : RegisterDetect(i, face)
  \/ \E i \in SpecSlots : RegisterReject(i)
  \/ \E confirmed \in BOOLEAN : Clear(confirmed)
  \/ \E hasFile \in BOOLEAN : ImportChange(hasFile)
  \/ \E text \in ImportTexts : ImportResume(text)
  \/ ImportReadFail

Spec == Init /\ [][Next]_vars

\* The export handler and its file.  The page has started and the models are
\* loaded; the other handlers run on fewer inputs: one image per
\* registration, and the files picked for import are the downloaded one and
\* ExportImportTexts.
ExportImportTexts ==
  { BadText, NullDoc,
    ObjDoc(<<ListMember("constructor", <<"d2">>), ListMember("a", <<"d1">>)>>) }

InitExport ==
  /\ ls \in {Absent, EmptyText, BadText}
  /\ faceMatcher = NoMatcher
  /\ dbCount = 0
  /\ isModelsLoaded = TRUE
  /\ loads = 0
  /\ started = TRUE
  /\ regs = [i \in Slots |-> Idle]
  /\ imports = 0
  /\ exported = NoFile
  /\ exportedDB = EmptyObj
  /\ dialog = NoDialog
  /\ LoopInit

NextExport ==
  \/ \E label \in Names : RegisterClick("r1", label, 1)
  \/ \E face \in Descs \cup {"none"} : RegisterDetect("r1", face)
  \/ \E confirmed \in BOOLEAN : Clear(confirmed)
  \/ Export
  \/ ImportChange(TRUE)
  \/ \E text \in ExportImportTexts \cup ({exported} \ {NoFile}) : ImportResume(text)

SpecExport == InitExport /\ [][NextExport]_vars

\* ----------------------------------------------------------------- claims
\* The files an import step may have read, and the detections a registration
\* step may have been given.
\* ------------------------------------------------------ camera and loop
\* Most btnStart handlers in flight at once.
MaxStarts == 2
\* Most detectionLoop chains alive at once.
MaxTicks == 2

InFlight == starts.loading + starts.camera + starts.play
Chains == ticks.raf + ticks.detect

\* btnStart click, up to its first await: that of loadModels(), or that of
\* getUserMedia in startVideo() when the models are loaded.
StartClick ==
  /\ started
  /\ InFlight < MaxStarts
  /\ starts' = IF isModelsLoaded THEN [starts EXCEPT !.camera = @ + 1]
                                 ELSE [starts EXCEPT !.loading = @ + 1]
  /\ stopped' = FALSE
  /\ dialog' = NoDialog
  /\ UNCHANGED <<ls, faceMatcher, dbCount, isModelsLoaded, loads, started, regs,
                 imports, exported, exportedDB>>
  /\ UNCHANGED <<stream, leaked, running, ticks, overlay, panel, controls,
                 detectionOptions, lastCall>>

\* The loadModels() a start awaits settles, loaded or not, and the handler
\* goes on into startVideo() up to the await of getUserMedia.
StartLoadDone(ok) ==
  /\ starts.loading > 0
  /\ starts' = [starts EXCEPT !.loading = @ - 1, !.camera = @ + 1]
  /\ IF ok
     THEN LET r == makeFaceMatcherFromStorage(ls)
          IN  /\ isModelsLoaded' = TRUE
              /\ Rebuilt(r)
     ELSE UNCHANGED <<faceMatcher, dbCount, isModelsLoaded>>
  /\ dialog' = NoDialog
  /\ UNCHANGED <<ls, loads, started, regs, imports, exported, exportedDB>>
  /\ UNCHANGED <<stream, leaked, running, ticks, overlay, panel, controls,
                 detectionOptions, lastCall, stopped>>

\* getUserMedia resolves: the stream is assigned over whatever `stream` held,
\* and the handler waits for video.play().
StartCameraOk ==
  /\ starts.camera > 0
  /\ starts' = [starts EXCEPT !.camera = @ - 1, !.play = @ + 1]
  /\ stream' = TRUE
  /\ leaked' = (leaked \/ stream)
  /\ dialog' = NoDialog
  /\ UNCHANGED storeState
  /\ UNCHANGED <<running, ticks, overlay, panel, controls, detectionOptions,
                 lastCall, stopped>>

\* getUserMedia rejects (or is missing): the catch of startVideo().
StartCameraFail ==
  /\ starts.camera > 0
  /\ starts' = [starts EXCEPT !.camera = @ - 1]
  /\ dialog' = AlertCamera
  /\ UNCHANGED storeState
  /\ UNCHANGED <<stream, leaked, running, ticks, overlay, panel, controls,
                 detectionOptions, lastCall, stopped>>

\* detectionLoop() entered with running true, up to its first await or
\* return: the chain waits for a frame when the models are not loaded, else
\* it refreshes detectionOptions and waits for its detection call.
Entered ==
  /\ ticks' = IF isModelsLoaded THEN [ticks EXCEPT !.detect = @ + 1]
                                ELSE [ticks EXCEPT !.raf = @ + 1]
  /\ detectionOptions' = IF isModelsLoaded THEN updateDetectionOptions(controls)
                                           ELSE detectionOptions
  /\ lastCall' = IF isModelsLoaded THEN TickCallOptions ELSE lastCall

\* video.play() resolves: the overlay is sized (which blanks a canvas), the
\* flag is set and detectionLoop() is called.
StartPlayOk ==
  /\ starts.play > 0
  /\ Chains < MaxTicks
  /\ starts' = [starts EXCEPT !.play = @ - 1]
  /\ overlay' = "clear"
  /\ running' = TRUE
  /\ Entered
  /\ dialog' = NoDialog
  /\ UNCHANGED storeState
  /\ UNCHANGED <<stream, leaked, panel, controls, stopped>>

\* startVideo() with the flag and the loop call in a `finally`: they run
\* after the catch too.
StartPlayFailFinally ==
  /\ starts.play > 0
  /\ Chains < MaxTicks
  /\ starts' = [starts EXCEPT !.play = @ - 1]
  /\ running' = TRUE
  /\ Entered
  /\ dialog' = AlertCamera
  /\ UNCHANGED storeState
  /\ UNCHANGED <<stream, leaked, overlay, panel, controls, stopped>>

\* video.play() rejects: the catch of startVideo(); the stream stays assigned.
StartPlayFail ==
  /\ starts.play > 0
  /\ starts' = [starts EXCEPT !.play = @ - 1]
  /\ dialog' = AlertCamera
  /\ UNCHANGED storeState
  /\ UNCHANGED <<stream, leaked, running, ticks, overlay, panel, controls,
                 detectionOptions, lastCall, stopped>>

\* stopVideo(): btnStop click.
Stop ==
  /\ started
  /\ running' = FALSE
  /\ stream' = FALSE
  /\ overlay' = "clear"
  /\ stopped' = TRUE
  /\ dialog' = NoDialog
  /\ UNCHANGED storeState
  /\ UNCHANGED <<leaked, starts, ticks, panel, controls, detectionOptions,
                 lastCall>>

\* detectionLoop() without the `if (!isModelsLoaded)` early return.
TickFrameNoGate ==
  /\ ticks.raf > 0
  /\ IF ~running
     THEN /\ ticks' = [ticks EXCEPT !.raf = @ - 1]
          /\ UNCHANGED <<detectionOptions, lastCall>>
     ELSE /\ ticks' = [ticks EXCEPT !.raf = @ - 1, !.detect = @ + 1]
          /\ detectionOptions' = updateDetectionOptions(controls)
          /\ lastCall' = TickCallOptions
  /\ dialog' = NoDialog
  /\ UNCHANGED storeState
  /\ UNCHANGED <<stream, leaked, running, starts, overlay, panel, controls,
                 stopped>>

\* requestAnimationFrame calls detectionLoop(): it returns when the flag is
\* false, asks for another frame when the models are not loaded, and else
\* goes on to its detection call.
TickFrame ==
  /\ ticks.raf > 0
  /\ IF ~running
     THEN /\ ticks' = [ticks EXCEPT !.raf = @ - 1]
          /\ UNCHANGED <<detectionOptions, lastCall>>
     ELSE IF ~isModelsLoaded
     THEN UNCHANGED <<ticks, detectionOptions, lastCall>>
     ELSE /\ ticks' = [ticks EXCEPT !.raf = @ - 1, !.detect = @ + 1]
          /\ detectionOptions' = updateDetectionOptions(controls)
          /\ lastCall' = TickCallOptions
  /\ dialog' = NoDialog
  /\ UNCHANGED storeState
  /\ UNCHANGED <<stream, leaked, running, starts, overlay, panel, controls,
                 stopped>>

\* What the tick leaves in the status elements: age, gender and expression
\* are written per face, the identified list is rebuilt every time.
Shown(face) ==
  IF face = "none"
  THEN [panel EXCEPT !.identified = <<>>]
  ELSE [age |-> "set",
        identified |-> IF faceMatcher # NoMatcher
                          /\ findBestMatch(faceMatcher, face) # "unknown"
                       THEN <<findBestMatch(faceMatcher, face)>>
                       ELSE <<>>]

\* The tick that also enrols the face it recognised under the label found.
TickDetectedEnrol(face) ==
  /\ ticks.detect > 0
  /\ ticks' = [ticks EXCEPT !.detect = @ - 1, !.raf = @ + 1]
  /\ overlay' = IF face = "none" THEN "clear" ELSE "drawn"
  /\ panel' = Shown(face)
  /\ ls' = IF Len(Shown(face).identified) > 0
           THEN saveDB(appended(loadDB(ls), Shown(face).identified[1], <<face>>))
           ELSE ls
  /\ dialog' = NoDialog
  /\ UNCHANGED <<faceMatcher, dbCount, isModelsLoaded, loads, started, regs,
                 imports, exported, exportedDB>>
  /\ UNCHANGED <<stream, leaked, running, starts, controls, detectionOptions,
                 lastCall, stopped>>

\* The detection call of a tick resolves: the overlay is cleared and drawn,
\* the status elements are written and the next frame is asked for, whatever
\* the flag is by now.
TickDetected(face) ==
  /\ ticks.detect > 0
  /\ ticks' = [ticks EXCEPT !.detect = @ - 1, !.raf = @ + 1]
  /\ overlay' = IF face = "none" THEN "clear" ELSE "drawn"
  /\ panel' = Shown(face)
  /\ dialog' = NoDialog
  /\ UNCHANGED storeState
  /\ UNCHANGED <<stream, leaked, running, starts, controls, detectionOptions,
                 lastCall, stopped>>

\* The detection call of a tick rejects: detectionLoop() has no catch, the
\* rejection ends the chain and no frame is asked for.
TickDetectFail ==
  /\ ticks.detect > 0
  /\ ticks' = [ticks EXCEPT !.detect = @ - 1]
  /\ dialog' = NoDialog
  /\ UNCHANGED storeState
  /\ UNCHANGED <<stream, leaked, running, starts, overlay, panel, controls,
                 detectionOptions, lastCall, stopped>>

\* A change event of one of the three controls.
ControlChange(c) ==
  /\ started
  /\ c # controls
  /\ controls' = c
  /\ detectionOptions' = updateDetectionOptions(c)
  /\ dialog' = NoDialog
  /\ UNCHANGED storeState
  /\ UNCHANGED <<stream, leaked, running, starts, ticks, overlay, panel,
                 lastCall, stopped>>

ControlStates ==
  [model : ModelValues, inputSize : InputSizeTexts, scoreThreshold : ScoreTexts]

\* The page with a store an earlier session left, after DOMContentLoaded.
LoopStores == {Absent, ObjDoc(<<ListMember("a", <<"d1">>)>>)}

InitLoop ==
  /\ ls \in LoopStores
  /\ faceMatcher = makeFaceMatcherFromStorage(ls).matcher
  /\ dbCount = makeFaceMatcherFromStorage(ls).count
  /\ isModelsLoaded = FALSE
  /\ loads = 0
  /\ started = TRUE
  /\ regs = [i \in Slots |-> Idle]
  /\ imports = 0
  /\ exported = NoFile
  /\ exportedDB = EmptyObj
  /\ dialog = NoDialog
  /\ LoopInit

NextLoop ==
  \/ StartClick
  \/ \E ok \in BOOLEAN : StartLoadDone(ok)
  \/ StartCameraOk
  \/ StartCameraFail
  \/ StartPlayOk
  \/ StartPlayFail
  \/ Stop
  \/ TickFrame
  \/ \E face \in Descs \cup {"none"} : TickDetected(face)
  \/ TickDetectFail

SpecLoop == InitLoop /\ [][NextLoop]_vars

\* The loop together with the model loads and one registration handler.
GateFaces == {"d1", "none"}

InitGate ==
  /\ ls = Absent
  /\ faceMatcher = NoMatcher
  /\ dbCount = 0
  /\ isModelsLoaded = FALSE
  /\ loads = 0
  /\ started = TRUE
  /\ regs = [i \in Slots |-> Idle]
  /\ imports = 0
  /\ exported = NoFile
  /\ exportedDB = EmptyObj
  /\ dialog = NoDialog
  /\ LoopInit

NextGate ==
  \/ LoadModelsClick
  \/ \E ok \in BOOLEAN : LoadModelsDone(ok)
  \/ StartClick
  \/ \E ok \in BOOLEAN : StartLoadDone(ok)
  \/ StartCameraOk
  \/ StartPlayOk
  \/ Stop
  \/ TickFrame
  \/ \E face \in GateFaces : TickDetected(face)
  \/ \E n \in 0..1 : RegisterClick("r1", "a", n)
  \/ \E face \in GateFaces : RegisterDetect("r1", face)

SpecGate == InitGate /\ [][NextGate]_vars

\* The loop with the detection controls, the models loaded; the select and
\* the number fields hold any of their values when the script starts.
InitOptions ==
  /\ ls = Absent
  /\ faceMatcher = NoMatcher
  /\ dbCount = 0
  /\ isModelsLoaded = TRUE
  /\ loads = 0
  /\ started = TRUE
  /\ regs = [i \in Slots |-> Idle]
  /\ imports = 0
  /\ exported = NoFile
  /\ exportedDB = EmptyObj
  /\ dialog = NoDialog
  /\ stream = FALSE
  /\ leaked = FALSE
  /\ running = FALSE
  /\ starts = NoStarts
  /\ ticks = NoTicks
  /\ overlay = "clear"
  /\ panel = BlankPanel
  /\ controls \in ControlStates
  /\ detectionOptions = updateDetectionOptions(controls)
  /\ lastCall = NoCall
  /\ stopped = FALSE

NextOptions ==
  \/ \E c \in ControlStates : ControlChange(c)
  \/ StartClick
  \/ StartCameraOk
  \/ StartPlayOk
  \/ Stop
  \/ TickFrame
  \/ \E face \in GateFaces : TickDetected(face)

SpecOptions == InitOptions /\ [][NextOptions]_vars

\* Two registration handlers in flight at once, with clears, imports and the
\* ticks of a running loop between their steps; the models are loaded and a
\* tick awaits its detection call.
InitRace ==
  /\ ls = Absent
  /\ faceMatcher = NoMatcher
  /\ dbCount = 0
  /\ isModelsLoaded = TRUE
  /\ loads = 0
  /\ started = TRUE
  /\ regs = [i \in Slots |-> Idle]
  /\ imports = 0
  /\ exported = NoFile
  /\ exportedDB = EmptyObj
  /\ dialog = NoDialog
  /\ stream = TRUE
  /\ leaked = FALSE
  /\ running = TRUE
  /\ starts = NoStarts
  /\ ticks = [raf |-> 0, detect |-> 1]
  /\ overlay = "clear"
  /\ panel = BlankPanel
  /\ controls = DefaultControls
  /\ detectionOptions = updateDetectionOptions(DefaultControls)
  /\ lastCall = TickCallOptions
  /\ stopped = FALSE

NextRace ==
  \/ \E i \in Slots, label \in Names : RegisterClick(i, label, 1)
  \/ \E i \in Slots, face \in Descs \cup {"none"} : RegisterDetect(i, face)
  \/ \E i \in Slots : RegisterReject(i)
  \/ Clear(TRUE)
  \/ ImportChange(TRUE)
  \/ \E text \in ExportImportTexts : ImportResume(text)
  \/ TickFrame
  \/ \E face \in Descs \cup {"none"} : TickDetected(face)

SpecRace == InitRace /\ [][NextRace]_vars

AnyText == ImportTexts \cup ExportImportTexts \cup {exported}
AnyFace == Descs \cup {"none"}

\* A store of the documented shape: an object whose every name holds a list.
WellFormed(db) == db.k = "obj" /\ ~HasNonList(db)

\* C1: once the page has started, the in-memory matcher is the matcher a
\* rebuild from the persisted store produces (and such a rebuild completes).
C1_MatcherReflectsStore ==
  started =>
    LET r == makeFaceMatcherFromStorage(ls)
    IN  ~r.threw /\ faceMatcher = r.matcher

\* C2: for a persisted store of the documented shape, the rebuilt matcher is
\* null exactly when the store has no name with a non-empty list.
C2_AbsentIffNoDescriptors ==
  LET db == loadDB(ls)
  IN  WellFormed(db) =>
        ((makeFaceMatcherFromStorage(ls).matcher = NoMatcher)
           <=> (\A n \in DOMAIN db.val : Len(db.val[n].ds) = 0))

\* C3: the step that ends a registration for label L with K collected
\* descriptors leaves, when K > 0, L's entry equal to its previous entry
\* followed by the K descriptors and every other name as it was; when K = 0
\* it leaves the persisted text and the matcher as they were.
C3_RegistrationAppends ==
  [][\A i \in Slots, face \in AnyFace :
       (regs[i].pc = "loop" /\ regs[i].left = 1 /\ RegisterDetect(i, face)) =>
         LET ds == Collected(i, face)
             L == regs[i].label
             before == loadDB(ls)
             after == loadDB(ls')
             prev == IF HasOwn(before, L) THEN before.val[L].ds ELSE <<>>
         IN  IF Len(ds) > 0
             THEN /\ HasOwn(after, L)
                  /\ after.val[L] = Entry("list", prev \o ds)
                  /\ \A n \in (DOMAIN before.val \cup DOMAIN after.val) \ {L} :
                       /\ HasOwn(before, n) /\ HasOwn(after, n)
                       /\ after.val[n] = before.val[n]
             ELSE ls' = ls /\ faceMatcher' = faceMatcher]_vars

\* C4: an import step whose text JSON.parse rejects leaves the persisted text
\* and the matcher as they were.
C4_UnparsedImportChangesNothing ==
  [][\A text \in AnyText :
       (dialog' = AlertInvalid /\ ~Parses(text) /\ ImportResume(text)) =>
         (ls' = ls /\ faceMatcher' = faceMatcher)]_vars

C4_Witness ==
  /\ dialog = AlertInvalid
  /\ ls.k = "obj" /\ Len(ls.mem) = 2
  /\ faceMatcher = makeFaceMatcherFromStorage(ls).matcher
  /\ faceMatcher.t = "matcher"

\* C5: an import step that alerts 'Invalid JSON file' leaves the persisted
\* text as it was.
C5_InvalidAlertLeavesStore ==
  [][\A text \in AnyText :
       (dialog' = AlertInvalid /\ ImportResume(text)) => ls' = ls]_vars

\* C6: after an import step whose text parses, loadDB() returns exactly the
\* parsed document, whatever the store held before.
C6_ImportReplaces ==
  [][\A text \in AnyText :
       (imports' = imports - 1 /\ Parses(text) /\ ImportResume(text)) =>
         loadDB(ls') = JSONparse(text)]_vars

C6_Witness ==
  /\ dialog = AlertImported
  /\ loadDB(ls) = SetProp(EmptyObj, "a", Entry("list", <<"d2">>))
  /\ faceMatcher = FaceMatcher(<<LabeledFaceDescriptors("a", <<"d2">>)>>)

\* C7: an import step that reads the downloaded export file makes loadDB()
\* return the db that export serialised, whatever happened in between.
C7_ExportImportRoundTrip ==
  [][(imports' = imports - 1 /\ exported # NoFile /\ ImportResume(exported)) =>
       loadDB(ls') = exportedDB]_vars

C7_Witness ==
  /\ dialog = AlertImported
  /\ exported # NoFile
  /\ loadDB(ls) = exportedDB
  /\ HasOwn(exportedDB, "a") /\ exportedDB.val["a"].ds = <<"d1", "d2">>
  /\ HasOwn(exportedDB, "constructor")

\* C8: when a registration saves a well-formed db S, loadDB() afterwards
\* returns S: the same names in the same order with the same lists.
C8_SaveLoadRoundTrip ==
  [][\A i \in Slots, face \in AnyFace :
       (/\ regs[i].pc = "loop" /\ regs[i].left = 1
        /\ Len(Collected(i, face)) > 0
        /\ ~appendThrows(loadDB(ls), regs[i].label)
        /\ RegisterDetect(i, face)) =>
         LET S == appended(loadDB(ls), regs[i].label, Collected(i, face))
         IN  WellFormed(S) => loadDB(ls') = S]_vars

C8_Witness ==
  /\ dialog = AlertRegistered
  /\ loadDB(ls).keys = <<"constructor", "a">>
  /\ loadDB(ls).val["a"].ds = <<"d1", "d2">>

\* C9: loadDB() gives the empty object whenever the key is absent or holds a
\* text JSON.parse rejects, and once the page has started on such a key the
\* rebuild has completed (dbCount is set) and left the matcher null.
C9_CorruptStoreLoadsEmpty ==
  ~Parses(ls) =>
    /\ loadDB(ls) = EmptyObj
    /\ started => (faceMatcher = NoMatcher /\ dbCount = 0)

C9_Witness ==
  /\ started
  /\ ls = BadText
  /\ faceMatcher = NoMatcher
  /\ dbCount = 0

\* C10: a confirmed clear removes the key, so that loadDB() gives the empty
\* object, and leaves the matcher null; a declined clear leaves the persisted
\* text and the matcher as they were.
C10_Clear ==
  [][\A confirmed \in BOOLEAN :
       (dialog' = ConfirmClear /\ Clear(confirmed)) =>
         IF confirmed
         THEN ls' = Absent /\ loadDB(ls') = EmptyObj /\ faceMatcher' = NoMatcher
         ELSE ls' = ls /\ faceMatcher' = faceMatcher]_vars

C10_Witness ==
  /\ dialog = ConfirmClear
  /\ ls = Absent
  /\ faceMatcher = NoMatcher
  /\ isModelsLoaded

\* ------------------------------------------------------ camera and loop claims
\* C11: detection ticks never overlap: at any time at most one tick is
\* scheduled for a frame or waiting for its detection call.
C11_TicksNeverOverlap == Chains <= 1

\* C12: once stop was clicked, no start was clicked after it and every start
\* that was in flight has settled, every stream that was acquired has had its
\* tracks stopped: none is held by `stream`, none is live and unreferenced.
C12_StopReleasesCamera == (stopped /\ InFlight = 0) => (~stream /\ ~leaked)

\* C13: a start whose getUserMedia or video.play() fails does not set the
\* running flag and does not schedule or begin a tick.
C13_FailedStartStartsNoLoop ==
  [][(StartCameraFail \/ StartPlayFail) => (running' = running /\ ticks' = ticks)]_vars

\* A start has just failed after the camera was acquired, and no loop runs.
C13_Witness == dialog = AlertCamera /\ stream /\ ~running /\ Chains = 0

\* C14: no detection call is issued while the models-loaded flag is false: a
\* tick of a running loop in that state changes nothing and stays scheduled,
\* a registration click in that state is rejected, no call is outstanding
\* while the flag is false, and the flag turns true only when a load of all
\* the models succeeds.
C14_NoDetectionBeforeModels ==
  [][/\ (~isModelsLoaded /\ running /\ TickFrame)
          => (ticks' = ticks /\ UNCHANGED <<overlay, panel, lastCall, storeState>>)
     /\ \A i \in Slots, label \in Names \cup {""}, n \in 0..MaxFiles :
          (~isModelsLoaded /\ RegisterClick(i, label, n))
             => (regs' = regs /\ ls' = ls /\ dialog' # NoDialog)
     /\ (~isModelsLoaded')
          => (ticks'.detect = 0 /\ lastCall' = lastCall
              /\ \A i \in Slots : regs'[i].pc = "idle")
     /\ (~isModelsLoaded /\ isModelsLoaded')
          => (LoadModelsDone(TRUE) \/ StartLoadDone(TRUE))
    ]_vars

\* A loop runs after a start whose model load failed: its tick waits for a
\* frame with the flag false and no detection call was ever made.
C14_Witness == running /\ ~isModelsLoaded /\ ticks.raf > 0 /\ lastCall = NoCall

\* C15: a detection tick, whatever its step, leaves the persisted store, the
\* matcher and the count shown untouched.
C15_TickLeavesStore ==
  [][(TickFrame \/ TickDetectFail \/ \E face \in AnyFace : TickDetected(face))
        => UNCHANGED <<ls, faceMatcher, dbCount>>]_vars

\* A tick has drawn a face it identified with the matcher built from the store.
C15_Witness ==
  /\ overlay = "drawn"
  /\ Len(panel.identified) > 0
  /\ faceMatcher # NoMatcher
  /\ ticks.raf > 0

\* C16: once stop was clicked and no start was clicked after it, the running
\* flag stays false.
C16_StopCancelsLoop == stopped => ~running

\* C19: whenever the running flag is true, a tick is scheduled or in flight.
C19_LoopAlive == running => Chains > 0

\* C20: once stop was clicked, no start was clicked after it, and no start
\* and no tick is left in flight, the overlay is clear.
C20_OverlayClearAfterStop ==
  (stopped /\ InFlight = 0 /\ Chains = 0) => overlay = "clear"

\* C18: every detection call a tick makes is given the options derived from
\* the controls as they are when the call is made.
C18_CallUsesControls ==
  [][(ticks'.detect > ticks.detect) => lastCall' = updateDetectionOptions(controls')]_vars

\* ------------------------------------------------- overlapping registrations
IsPrefix(s, t) == Len(s) <= Len(t) /\ SubSeq(t, 1, Len(s)) = s

\* C17: a registration that writes the store, whatever ran between its click
\* and its last step, appends its descriptors to the store as it is at that
\* step: every descriptor persisted by then, those of another registration
\* that overlapped it included, is still there after it, in the same place,
\* and the other handler in flight keeps what it has collected.
C17_OverlappingRegistrationsKeepBoth ==
  [][\A i \in Slots, face \in AnyFace :
       (regs[i].pc = "loop" /\ regs[i].left = 1 /\ ls' # ls /\ RegisterDetect(i, face))
         => LET before == loadDB(ls)
                after == loadDB(ls')
                label == regs[i].label
            IN  /\ \A n \in DOMAIN before.val :
                     /\ HasOwn(after, n)
                     /\ after.val[n].t = before.val[n].t
                     /\ IsPrefix(before.val[n].ds, after.val[n].ds)
                /\ HasOwn(after, label)
                /\ after.val[label].ds =
                     (IF HasOwn(before, label) THEN before.val[label].ds ELSE <<>>)
                     \o Collected(i, face)
                /\ \A j \in Slots \ {i} : regs'[j] = regs[j]
    ]_vars

\* The registration in r1 has just written its descriptor while the one in
\* r2, for the same name, is still in flight.
C17_Witness ==
  /\ dialog = AlertRegistered
  /\ regs["r2"].pc = "loop"
  /\ regs["r2"].label = "a"
  /\ regs["r1"].pc = "idle"
  /\ loadDB(ls).k = "obj"
  /\ HasOwn(loadDB(ls), "a")
  /\ loadDB(ls).val["a"].ds = <<"d1">>

====
